---- MODULE Spec2Model ----
(***************************************************************************)
(* Client-side controller of the graph workspace (frontend script).        *)
(*                                                                         *)
(* The visual graph is the element pool of the rendering library (cy).     *)
(* The library is not part of the repository; the operators named cy...    *)
(* model the library calls the script makes, with the library's behaviour: *)
(*   - cy.add(list): elements whose id is already used (in the graph or    *)
(*     earlier in the list) are skipped; nodes are restored before edges;  *)
(*     an edge whose source or target is not in the graph is rejected;     *)
(*   - cy.remove(sel): removes the matching elements and the edges         *)
(*     connected to removed nodes; it emits 'remove', never 'unselect';    *)
(*   - eles.select() / eles.unselect(): emit 'select' / 'unselect' only    *)
(*     for the elements whose selected flag changed;                       *)
(*   - the canvas is created without selectionType / autounselectify, so   *)
(*     the input event that emits 'tap' also makes the library apply its   *)
(*     own selection gesture: with shift, ctrl or meta held the tapped     *)
(*     element is toggled; otherwise the other selected elements are       *)
(*     unselected and the tapped one is selected; a tap on the background  *)
(*     with no such key unselects everything.  The gesture runs before or  *)
(*     after the 'tap' listeners; both orders are modelled.                *)
(***************************************************************************)
EXTENDS Integers, Sequences, FiniteSets, TLC

VARIABLES
    cyNodes,          \* node elements of the visual graph (cy.nodes())
    cyEdges,          \* edge elements of the visual graph (cy.edges())
    cySelected,       \* ids of the nodes of the graph whose selected flag is set
    selectedNodeIds,  \* state.selectedNodeIds
    multiSelectMode,  \* multiSelectMode
    buttonsEnabled,   \* !expandButton.disabled (= !deleteButton.disabled)
    tasks,            \* runTask invocations whose request is in flight
    lastOp,           \* history: the handler that ran last, with its input
    mergePc,          \* merge harness: "idle", "once" or "twice"
    mergeInput,       \* merge harness: the payload being merged
    mergeBefore,      \* merge harness: the graph before the first merge
    mergeOnce,        \* merge harness: the graph after the first merge
    readinessVariant, \* TRUE in the script variant with the datastore readiness check
    overlayState,     \* overlayState
    backendWaitState, \* backendWaitState
    databaseWaitState,\* databaseWaitState (readiness variant)
    backendHealthCheckIntervalId, \* TRUE while it holds the id of the recovery poller
    timers,           \* the timers pending: recovery poller intervals and transient timeouts
    overlay,          \* the overlay element: hidden flag and message text
    now,              \* Date.now(), in seconds
    running,          \* runTask invocations started and not finished
    probes,           \* health probes in flight
    readiness,        \* readiness variant: position of waitForFullReadiness
    hLast,            \* history: the health event handled last, with the state before it
    scriptVariant,    \* the script the page runs
    localStorage,     \* localStorage['genai-graph-user-id'], NoValue when not set
    USER_ID,          \* USER_ID of the page loaded last, NoValue in a script without it
    requestLog,       \* history: the config of every fetch that request has made
    promptTextarea,   \* promptTextarea.value
    promptSnapshot,   \* promptSnapshot
    promptButtons,    \* savePromptButton.disabled and resetPromptButton.disabled
    promptTasks,      \* prompt requests in flight: the load, and saves with their body
    pLast,            \* history: the prompt handler that ran last, with the state before it
    truncText,        \* truncateTextToFit: the text argument
    truncMaxWidth,    \* truncateTextToFit: the maxWidth argument
    truncPc,          \* truncateTextToFit: "idle", "call" or "return"
    truncResult       \* truncateTextToFit: the value returned

vars == << cyNodes, cyEdges, cySelected, selectedNodeIds, multiSelectMode,
           buttonsEnabled, tasks, lastOp, mergePc, mergeInput, mergeBefore,
           mergeOnce, readinessVariant, overlayState, backendWaitState,
           databaseWaitState, backendHealthCheckIntervalId, timers, overlay, now,
           running, probes, readiness, hLast, scriptVariant, localStorage,
           USER_ID, requestLog, promptTextarea, promptSnapshot, promptButtons,
           promptTasks, pLast, truncText, truncMaxWidth, truncPc, truncResult >>

graphVars == << cyNodes, cyEdges >>
uiVars == << cySelected, selectedNodeIds, multiSelectMode, buttonsEnabled, tasks, lastOp >>
harnessVars == << mergePc, mergeInput, mergeBefore, mergeOnce >>
healthVars == << readinessVariant, overlayState, backendWaitState, databaseWaitState,
                 backendHealthCheckIntervalId, timers, overlay, now, running, probes,
                 readiness, hLast >>
gatewayVars == << scriptVariant, localStorage, USER_ID, requestLog >>
promptVars == << promptTextarea, promptSnapshot, promptButtons, promptTasks, pLast >>
truncVars == << truncText, truncMaxWidth, truncPc, truncResult >>
asideVars == << promptVars, truncVars >>

(***************************************************************************)
(* Bounds of the model.                                                    *)
(***************************************************************************)
MaxPayloadNodes == 2
MaxPayloadEdges == 2
MaxTasks == 2
MaxClock == 1
MaxProbes == 1
MaxRequests == 2
MaxPromptTasks == 2
MaxTextLen == 3
MaxTruncWidth == 45

(***************************************************************************)
(* Text Measurer.                                                          *)
(***************************************************************************)
\* the one-character ellipsis U+2026, written "~" here
Ellipsis == "~"

\* textMetrics.measure: the canvas primitive, modelled as a sum of glyph
\* advances (wide capitals, narrow spaces).
GlyphWidth(c) ==
    IF c \in {"A", "B", "K", "U"} THEN 14
    ELSE IF c = " " THEN 5
    ELSE IF c = Ellipsis THEN 12
    ELSE 10

RECURSIVE measure(_)
measure(text) ==
    IF Len(text) = 0 THEN 0
    ELSE GlyphWidth(SubSeq(text, 1, 1)) + measure(SubSeq(text, 2, Len(text)))

\* mutant of truncateLoop: measures the prefix without the ellipsis
RECURSIVE truncateLoopIgnoresEllipsis(_, _)
truncateLoopIgnoresEllipsis(truncated, maxWidth) ==
    IF Len(truncated) > 0 /\ measure(truncated) > maxWidth
    THEN truncateLoopIgnoresEllipsis(SubSeq(truncated, 1, Len(truncated) - 1), maxWidth)
    ELSE truncated \o Ellipsis

RECURSIVE truncateLoop(_, _)
truncateLoop(truncated, maxWidth) ==
    IF Len(truncated) > 0 /\ measure(truncated \o Ellipsis) > maxWidth
    THEN truncateLoop(SubSeq(truncated, 1, Len(truncated) - 1), maxWidth)
    ELSE truncated \o Ellipsis

truncateTextToFit(text, maxWidth) ==
    IF measure(text) <= maxWidth THEN text ELSE truncateLoop(text, maxWidth)

RECURSIVE trimStart(_)
trimStart(s) ==
    IF Len(s) > 0 /\ SubSeq(s, 1, 1) = " " THEN trimStart(SubSeq(s, 2, Len(s))) ELSE s

RECURSIVE trimEnd(_)
trimEnd(s) ==
    IF Len(s) > 0 /\ SubSeq(s, Len(s), Len(s)) = " "
    THEN trimEnd(SubSeq(s, 1, Len(s) - 1)) ELSE s

trim(s) == trimEnd(trimStart(s))

maxTextWidth == 94
fontSize == 16

computeNodeVisuals(rawName) ==
    LET name == trim(IF rawName = "" THEN "Untitled" ELSE rawName)
    IN  [displayName |-> truncateTextToFit(name, maxTextWidth), fontSize |-> fontSize]

(***************************************************************************)
(* Payloads the backend can answer with.                                   *)
(***************************************************************************)
NodeIdSet == {"a", "b", "a-b"}

NodePool ==
    << [id |-> "a",   name |-> "Ada",               description |-> "d1"],
       [id |-> "a",   name |-> " Knowledge graph ", description |-> "d2"],
       [id |-> "b",   name |-> "",                  description |-> "d1"],
       [id |-> "a-b", name |-> "Bob",               description |-> "d2"] >>

\* "a-b-b-r" is the composite id of the last two edges
EdgePool ==
    << [source_id |-> "a",   target_id |-> "b", label |-> "r"],
       [source_id |-> "a",   target_id |-> "b", label |-> "b-r"],
       [source_id |-> "a-b", target_id |-> "b", label |-> "r"] >>

SeqsUpTo(S, n) == UNION { [1..k -> S] : k \in 0..n }

Range(s) == { s[i] : i \in 1..Len(s) }

\* a null response body (204, or a body that is not JSON)
NoPayload == [null |-> TRUE]

PayloadsOf(maxNodes, maxEdges) ==
    { [nodes |-> ns, edges |-> es] :
        ns \in SeqsUpTo(Range(NodePool), maxNodes),
        es \in SeqsUpTo(Range(EdgePool), maxEdges) }

Payloads == PayloadsOf(MaxPayloadNodes, MaxPayloadEdges) \cup {NoPayload}

(***************************************************************************)
(* The rendering library's element pool.  A graph is a record              *)
(* [nodes |-> set of node elements, edges |-> set of edge elements].       *)
(***************************************************************************)
EmptyGraph == [nodes |-> {}, edges |-> {}]

Elements(g) == g.nodes \cup g.edges

ElementIds(g) == { e.id : e \in Elements(g) }

\* cy.hasElementWithId(id)
hasElementWithId(g, id) == id \in ElementIds(g)

\* cy.getElementById(id): a collection holding the element, or an empty one
getElementById(g, id) == { e \in Elements(g) : e.id = id }

\* mutant of setNodeData: the description is left as it was
setNodeDataKeepsDescription(g, data) ==
    [g EXCEPT !.nodes =
        { IF n.id = data.id
          THEN [n EXCEPT !.name = data.name,
                         !.displayName = data.displayName, !.fontSize = data.fontSize]
          ELSE n : n \in g.nodes }]

\* existingNode.data(data): overwrites the data fields of the element; the id
\* is immutable.
setNodeData(g, data) ==
    [g EXCEPT !.nodes =
        { IF n.id = data.id
          THEN [n EXCEPT !.name = data.name, !.description = data.description,
                         !.displayName = data.displayName, !.fontSize = data.fontSize]
          ELSE n : n \in g.nodes }]

\* The element list handed to cy.add, as the Collection constructor keeps it:
\* an element whose id is in the graph or earlier in the list is skipped.
RECURSIVE keepUniqueIds(_, _, _, _)
keepUniqueIds(g, list, i, kept) ==
    IF i > Len(list) THEN kept
    ELSE LET ele == list[i]
             dup == hasElementWithId(g, ele.id) \/ \E k \in 1..Len(kept) : kept[k].id = ele.id
         IN  keepUniqueIds(g, list, i + 1, IF dup THEN kept ELSE Append(kept, ele))

\* mutant of canRestoreEdge: the endpoints are not looked up
canRestoreEdgeUnchecked(g, edge) == TRUE

\* restore(): an edge is created only when its source and its target exist
canRestoreEdge(g, edge) ==
    hasElementWithId(g, edge.source) /\ hasElementWithId(g, edge.target)

\* cy.add(elementsToAdd): nodes are restored first, then the edges
cyAdd(g, elementsToAdd) ==
    LET kept == keepUniqueIds(g, elementsToAdd, 1, << >>)
        newNodes == { kept[i] : i \in { k \in 1..Len(kept) : kept[k].group = "nodes" } }
        withNodes == [g EXCEPT !.nodes = g.nodes \cup newNodes]
        newEdges == { kept[i] : i \in { k \in 1..Len(kept) : kept[k].group = "edges" } }
    IN  [withNodes EXCEPT !.edges =
            withNodes.edges \cup { e \in newEdges : canRestoreEdge(withNodes, e) }]

\* cy.remove('#id1, #id2'): the elements with these ids and the edges connected
\* to the removed nodes
cyRemove(g, ids) ==
    [nodes |-> { n \in g.nodes : n.id \notin ids },
     edges |-> { e \in g.edges : e.id \notin ids /\ e.source \notin ids /\ e.target \notin ids }]

(***************************************************************************)
(* Graph Merge Engine: mergeGraph(graphData).                              *)
(***************************************************************************)
\* the data object built for an incoming node
nodeData(node) ==
    LET visuals == computeNodeVisuals(node.name)
    IN  [group |-> "nodes", id |-> node.id, name |-> node.name,
         description |-> node.description,
         displayName |-> visuals.displayName, fontSize |-> visuals.fontSize]

\* the composite id of an incoming edge
edgeId(edge) == edge.source_id \o "-" \o edge.target_id \o "-" \o edge.label

\* the element queued for an incoming edge
edgeElement(edge) ==
    [group |-> "edges", id |-> edgeId(edge), source |-> edge.source_id,
     target |-> edge.target_id, label |-> edge.label]

\* mutant of mergeEdges: the queued element carries no id of its own, so the
\* library gives it a generated one
RECURSIVE mergeEdgesWithoutId(_, _, _)
mergeEdgesWithoutId(acc, edges, i) ==
    IF i > Len(edges) THEN acc
    ELSE LET id == edgeId(edges[i])
             generated == "uuid" \o ToString(Cardinality(Elements(acc.graph)) + Len(acc.queue))
         IN  IF id \in acc.seenEdgeIds
             THEN mergeEdgesWithoutId(acc, edges, i + 1)
             ELSE LET seen == [acc EXCEPT !.seenEdgeIds = acc.seenEdgeIds \cup {id}]
                  IN  IF getElementById(acc.graph, id) # {}
                      THEN mergeEdgesWithoutId(seen, edges, i + 1)
                      ELSE mergeEdgesWithoutId(
                               [seen EXCEPT !.queue =
                                   Append(seen.queue, [edgeElement(edges[i]) EXCEPT !.id = generated])],
                               edges, i + 1)

\* the nodes loop: an existing element is overwritten in place, any other
\* node is queued.  acc = [graph, queue]
RECURSIVE mergeNodes(_, _, _)
mergeNodes(acc, nodes, i) ==
    IF i > Len(nodes) THEN acc
    ELSE LET data == nodeData(nodes[i])
             existingNode == getElementById(acc.graph, data.id)
         IN  mergeNodes(
                 IF existingNode # {}
                 THEN [acc EXCEPT !.graph = setNodeData(acc.graph, data)]
                 ELSE [acc EXCEPT !.queue = Append(acc.queue, data)],
                 nodes, i + 1)

\* the edges loop: an id seen in this call or present in the graph is skipped.
\* acc = [graph, queue, seenEdgeIds]
RECURSIVE mergeEdges(_, _, _)
mergeEdges(acc, edges, i) ==
    IF i > Len(edges) THEN acc
    ELSE LET id == edgeId(edges[i])
         IN  IF id \in acc.seenEdgeIds
             THEN mergeEdges(acc, edges, i + 1)
             ELSE LET seen == [acc EXCEPT !.seenEdgeIds = acc.seenEdgeIds \cup {id}]
                  IN  IF getElementById(acc.graph, id) # {}
                      THEN mergeEdges(seen, edges, i + 1)
                      ELSE mergeEdges(
                               [seen EXCEPT !.queue = Append(seen.queue, edgeElement(edges[i]))],
                               edges, i + 1)

\* elementsToAdd, with the graph as the nodes loop left it
mergeQueue(g, graphData) ==
    LET afterNodes == mergeNodes([graph |-> g, queue |-> << >>], graphData.nodes, 1)
    IN  mergeEdges([graph |-> afterNodes.graph, queue |-> afterNodes.queue,
                    seenEdgeIds |-> {}], graphData.edges, 1)

\* mutant of mergeGraph: the graph is emptied before the batch is added
mergeGraphReplacing(g, graphData) ==
    IF graphData = NoPayload THEN g
    ELSE LET m == mergeQueue(EmptyGraph, graphData)
         IN  IF Len(m.queue) > 0 THEN cyAdd(m.graph, m.queue) ELSE m.graph

mergeGraph(g, graphData) ==
    IF graphData = NoPayload THEN g
    ELSE LET m == mergeQueue(g, graphData)
         IN  IF Len(m.queue) > 0 THEN cyAdd(m.graph, m.queue) ELSE m.graph

Graph == [nodes |-> cyNodes, edges |-> cyEdges]

\* the history record: the handler, the ids it acted on, and for a tap the
\* selection before it, for a delete the ids the DELETE requests were sent for
Op(kind, ids, before) == [kind |-> kind, ids |-> ids, before |-> before]

Other == Op("other", {}, {})

(***************************************************************************)
(* Overlay and Backend Health State Machine.  Two variants of the script   *)
(* are modelled: the multi-select script (readinessVariant = FALSE) and    *)
(* the script with the datastore readiness check (readinessVariant = TRUE).*)
(* A health state is the record                                            *)
(*   [variant, overlayState, backendWaitState, databaseWaitState,          *)
(*    poller |-> backendHealthCheckIntervalId is set, timers, overlay,     *)
(*    now].                                                                *)
(* A message is [text, elapsed]; elapsed is NoTime for a plain text.       *)
(***************************************************************************)
\* null, for a start time and for the elapsed part of a plain message
NoTime == -1

Msg(text, elapsed) == [text |-> text, elapsed |-> elapsed]

Plain(text) == Msg(text, NoTime)

NoWait(baseMessage) ==
    [active |-> FALSE, timerId |-> FALSE, startTime |-> NoTime,
     baseMessage |-> baseMessage]

InitialOverlayState ==
    [taskDepth |-> 0,
     taskMessage |-> Plain("Working"),
     backend |-> [active |-> FALSE, message |-> Plain("")],
     database |-> [active |-> FALSE, message |-> Plain("")],
     transient |-> [active |-> FALSE, message |-> Plain(""), timeoutId |-> NoTime]]

\* the overlay element as the page markup leaves it
InitialOverlay == [hidden |-> TRUE, text |-> Plain("Working")]

\* the timers pending: the number of intervals of the recovery poller, and the
\* transient timeouts, each known by the time it was set at, which is also
\* what overlayState.transient.timeoutId holds of it.  None is pending here.
NoTimers == [poller |-> 0, transient |-> {}]

InitialHealth(variant) ==
    [variant |-> variant,
     overlayState |-> InitialOverlayState,
     backendWaitState |-> NoWait("Spinning up backend"),
     databaseWaitState |-> NoWait("Waiting for database"),
     poller |-> FALSE,
     timers |-> NoTimers,
     overlay |-> InitialOverlay,
     now |-> 0]

Health ==
    [variant |-> readinessVariant,
     overlayState |-> overlayState,
     backendWaitState |-> backendWaitState,
     databaseWaitState |-> databaseWaitState,
     poller |-> backendHealthCheckIntervalId,
     timers |-> timers,
     overlay |-> overlay,
     now |-> now]

SetHealth(h) ==
    /\ overlayState' = h.overlayState
    /\ backendWaitState' = h.backendWaitState
    /\ databaseWaitState' = h.databaseWaitState
    /\ backendHealthCheckIntervalId' = h.poller
    /\ timers' = h.timers
    /\ overlay' = h.overlay
    /\ UNCHANGED << readinessVariant, now >>

Show(h, message) == [h EXCEPT !.overlay = [hidden |-> FALSE, text |-> message]]

Hide(h) == [h EXCEPT !.overlay = [hidden |-> TRUE, text |-> Plain("Working")]]

\* refreshOverlay() of the multi-select script
refreshOverlayMulti(h) ==
    IF h.overlayState.taskDepth > 0 THEN Show(h, h.overlayState.taskMessage)
    ELSE IF h.overlayState.backend.active THEN Show(h, h.overlayState.backend.message)
    ELSE IF h.overlayState.transient.active THEN Show(h, h.overlayState.transient.message)
    ELSE Hide(h)

\* mutant of refreshOverlayReady: the recovery message is looked at first
refreshOverlayBackendFirst(h) ==
    IF h.overlayState.backend.active THEN Show(h, h.overlayState.backend.message)
    ELSE IF h.overlayState.taskDepth > 0 THEN Show(h, h.overlayState.taskMessage)
    ELSE IF h.overlayState.database.active THEN Show(h, h.overlayState.database.message)
    ELSE IF h.overlayState.transient.active THEN Show(h, h.overlayState.transient.message)
    ELSE Hide(h)

\* refreshOverlay() of the readiness variant
refreshOverlayReady(h) ==
    IF h.overlayState.taskDepth > 0 THEN Show(h, h.overlayState.taskMessage)
    ELSE IF h.overlayState.backend.active THEN Show(h, h.overlayState.backend.message)
    ELSE IF h.overlayState.database.active THEN Show(h, h.overlayState.database.message)
    ELSE IF h.overlayState.transient.active THEN Show(h, h.overlayState.transient.message)
    ELSE Hide(h)

refreshOverlay(h) == IF h.variant THEN refreshOverlayReady(h) ELSE refreshOverlayMulti(h)

\* mutant of showLoading: the depth is not counted
showLoadingUncounted(h, message) ==
    refreshOverlay([h EXCEPT !.overlayState.taskMessage = message])

showLoading(h, message) ==
    refreshOverlay([h EXCEPT !.overlayState.taskDepth = @ + 1,
                             !.overlayState.taskMessage = message])

hideLoading(h) ==
    refreshOverlay([h EXCEPT !.overlayState.taskDepth =
                                 IF @ - 1 > 0 THEN @ - 1 ELSE 0])

\* mutant of showTransientStatus: the pending timeout is not cleared
showTransientStatusStacking(h, message) ==
    refreshOverlay([h EXCEPT !.overlayState.transient =
                                 [active |-> TRUE, message |-> message, timeoutId |-> h.now],
                             !.timers.transient = @ \cup {h.now}])

\* showTransientStatus(message): clearTimeout of the pending timeout, then a
\* new one is set
showTransientStatus(h, message) ==
    refreshOverlay([h EXCEPT !.overlayState.transient =
                                 [active |-> TRUE, message |-> message, timeoutId |-> h.now],
                             !.timers.transient =
                                 (@ \ {h.overlayState.transient.timeoutId}) \cup {h.now}])

\* the callback of the timeout that showTransientStatus set at time id
transientExpired(h, id) ==
    refreshOverlay([h EXCEPT !.overlayState.transient.active = FALSE,
                             !.overlayState.transient.timeoutId = NoTime,
                             !.timers.transient = @ \ {id}])

updateBackendWaitMessage(h) ==
    IF ~h.backendWaitState.active THEN h
    ELSE refreshOverlay([h EXCEPT !.overlayState.backend =
            [active |-> TRUE,
             message |-> Msg(h.backendWaitState.baseMessage,
                             h.now - h.backendWaitState.startTime)]])

\* mutant of startBackendWait: the clock restarts on every entry
startBackendWaitRestarts(h, messagePrefix) ==
    updateBackendWaitMessage(
        [h EXCEPT !.backendWaitState =
            [active |-> TRUE, timerId |-> TRUE, startTime |-> h.now,
             baseMessage |-> messagePrefix]])

startBackendWait(h, messagePrefix) ==
    updateBackendWaitMessage(
        IF ~h.backendWaitState.active
        THEN [h EXCEPT !.backendWaitState =
                [active |-> TRUE, timerId |-> TRUE, startTime |-> h.now,
                 baseMessage |-> messagePrefix]]
        ELSE [h EXCEPT !.backendWaitState.baseMessage = messagePrefix])

\* mutant of stopBackendWait: the wait is never ended
stopBackendWaitNoop(h) == h

stopBackendWait(h) ==
    IF ~h.backendWaitState.active THEN h
    ELSE refreshOverlay([h EXCEPT !.backendWaitState.active = FALSE,
                                  !.backendWaitState.timerId = FALSE,
                                  !.overlayState.backend =
                                      [active |-> FALSE, message |-> Plain("")]])

updateDatabaseWaitMessage(h) ==
    IF ~h.databaseWaitState.active THEN h
    ELSE refreshOverlay([h EXCEPT !.overlayState.database =
            [active |-> TRUE,
             message |-> Msg(h.databaseWaitState.baseMessage,
                             h.now - h.databaseWaitState.startTime)]])

\* startDatabaseWait(), always called with the default prefix
startDatabaseWait(h) ==
    updateDatabaseWaitMessage(
        IF ~h.databaseWaitState.active
        THEN [h EXCEPT !.databaseWaitState =
                [active |-> TRUE, timerId |-> TRUE, startTime |-> h.now,
                 baseMessage |-> "Waiting for database"]]
        ELSE [h EXCEPT !.databaseWaitState.baseMessage = "Waiting for database"])

stopDatabaseWait(h) ==
    IF ~h.databaseWaitState.active THEN h
    ELSE refreshOverlay([h EXCEPT !.databaseWaitState.active = FALSE,
                                  !.databaseWaitState.timerId = FALSE,
                                  !.overlayState.database =
                                      [active |-> FALSE, message |-> Plain("")]])

stopBackendRecoveryPolling(h) ==
    IF h.poller THEN [h EXCEPT !.poller = FALSE, !.timers.poller = @ - 1] ELSE h

\* mutant of markBackendOnline: nothing is cleared
markBackendOnlineNoop(h) == h

\* markBackendOnline() of the multi-select script
markBackendOnlineMulti(h) == stopBackendRecoveryPolling(stopBackendWait(h))

\* markBackendOnline() of the readiness variant
markBackendOnlineReady(h) == stopBackendWait(h)

markBackendOnline(h) ==
    IF h.variant THEN markBackendOnlineReady(h) ELSE markBackendOnlineMulti(h)

\* mutant of schedulePoller: an interval is set whether or not one is held
schedulePollerUnguarded(h) ==
    [h EXCEPT !.poller = TRUE, !.timers.poller = @ + 1]

\* beginBackendRecovery: if (backendHealthCheckIntervalId) return;
\* backendHealthCheckIntervalId = setInterval(...)
schedulePoller(h) ==
    IF h.poller THEN h ELSE [h EXCEPT !.poller = TRUE, !.timers.poller = @ + 1]

\* mutant of beginBackendRecovery: the failure is not reported
beginBackendRecoveryNoop(h, messagePrefix) == h

\* mutant of beginBackendRecoveryMulti: the wait starts, no poller is set
beginBackendRecoveryUnpolled(h, messagePrefix) == startBackendWait(h, messagePrefix)

\* beginBackendRecovery(messagePrefix) of the multi-select script; the poller
\* is scheduled unless it is already
beginBackendRecoveryMulti(h, messagePrefix) ==
    schedulePoller(startBackendWait(h, messagePrefix))

\* mutant of beginBackendRecoveryReady: the datastore wait is left as it is
beginBackendRecoveryKeepsDatabaseWait(h, messagePrefix) ==
    schedulePoller(startBackendWait(h, messagePrefix))

\* beginBackendRecovery(messagePrefix) of the readiness variant
beginBackendRecoveryReady(h, messagePrefix) ==
    schedulePoller(startBackendWait(stopDatabaseWait(h), messagePrefix))

beginBackendRecovery(h, messagePrefix) ==
    IF h.variant THEN beginBackendRecoveryReady(h, messagePrefix)
    ELSE beginBackendRecoveryMulti(h, messagePrefix)

\* the part of a health state that the health conditions consist of:
\* backend-recovering, datastore-wait with their tickers, and the poller
Conditions(h) ==
    [backendWaitState |-> h.backendWaitState,
     databaseWaitState |-> h.databaseWaitState,
     backend |-> h.overlayState.backend,
     database |-> h.overlayState.database,
     poller |-> h.poller]

\* health history: the event handled last, the message prefix it carried,
\* the health conditions it found and the transient timeouts then pending
Event(kind, prefix, before) ==
    [kind |-> kind, prefix |-> prefix, before |-> Conditions(before),
     pending |-> before.timers.transient]

NoEvent == Event("none", "", InitialHealth(FALSE))

\* the graph side is idle while the health machine is explored
GraphIdle ==
    /\ cyNodes = {} /\ cyEdges = {}
    /\ cySelected = {} /\ selectedNodeIds = {} /\ multiSelectMode = FALSE
    /\ buttonsEnabled = FALSE /\ tasks = {} /\ lastOp = Other
    /\ mergePc = "idle" /\ mergeInput = NoPayload
    /\ mergeBefore = EmptyGraph /\ mergeOnce = EmptyGraph

\* the health side is idle while the graph is explored
HealthIdle ==
    /\ readinessVariant = FALSE
    /\ overlayState = InitialOverlayState
    /\ backendWaitState = NoWait("Spinning up backend")
    /\ databaseWaitState = NoWait("Waiting for database")
    /\ backendHealthCheckIntervalId = FALSE
    /\ timers = NoTimers
    /\ overlay = InitialOverlay
    /\ now = 0
    /\ running = {}
    /\ probes = [initial |-> 0, poller |-> 0]
    /\ readiness = "none"
    /\ hLast = NoEvent


(***************************************************************************)
(* Request Gateway: the identity of the browser and the config that        *)
(* request(path, options) hands to fetch.  Four scripts are modelled:      *)
(* "single" (script.js), "multi" (the multi-select script), "cola" (the    *)
(* script with the cola layout) and "readiness" (the script with the       *)
(* datastore readiness check).  generateUUID() draws from Math.random():   *)
(* its result is an input of the operators, drawn from UUIDs.              *)
(***************************************************************************)
ScriptVariants == {"single", "multi", "cola", "readiness"}

\* null / undefined: no stored item, no header of that name
NoValue == "none"

\* the results of generateUUID()
UUIDs == {"uuid-1", "uuid-2"}

\* the scripts that define getOrSetUserId and USER_ID
HasUserId(variant) == variant \in {"multi", "cola"}

\* getOrSetUserId(): the stored id, or a generated one, which is stored
getOrSetUserId(stored, uuid) ==
    IF stored = NoValue
    THEN [userId |-> uuid, stored |-> uuid]
    ELSE [userId |-> stored, stored |-> stored]

\* the methods that callers of request pass (GET is the default) and the
\* lower-case spelling of one of them
Methods == {"GET", "POST", "PUT", "DELETE", "PATCH", "patch"}

toUpperCase(method) == IF method = "patch" THEN "PATCH" ELSE method

idempotentMethods == {"POST", "PUT", "DELETE", "PATCH"}

\* the Content-Type header: set when options.body is given
contentType(hasBody) == IF hasBody THEN "application/json" ELSE NoValue

Config(method, userId, key, type) ==
    [method |-> method,
     headers |-> [XUserID |-> userId, IdempotencyKey |-> key, ContentType |-> type]]

\* request(path, options) of the multi-select script, up to fetch
requestMulti(userId, method, hasBody, uuid) ==
    Config(method, userId,
           IF toUpperCase(method) \in idempotentMethods THEN uuid ELSE NoValue,
           contentType(hasBody))

\* request(path, options) of the script with the cola layout, up to fetch
requestCola(userId, method, hasBody, uuid) ==
    Config(method, userId, NoValue, contentType(hasBody))

\* request(path, options) of script.js and of the readiness variant, up to
\* fetch
requestPlain(userId, method, hasBody, uuid) ==
    Config(method, NoValue, NoValue, contentType(hasBody))

request(variant, userId, method, hasBody, uuid) ==
    CASE variant = "multi" -> requestMulti(userId, method, hasBody, uuid)
      [] variant = "cola" -> requestCola(userId, method, hasBody, uuid)
      [] OTHER -> requestPlain(userId, method, hasBody, uuid)

\* the gateway side is idle while the graph and the health are explored
GatewayIdle ==
    /\ scriptVariant = "multi"
    /\ localStorage = NoValue
    /\ USER_ID = NoValue
    /\ requestLog = << >>

(***************************************************************************)
(* Prompt editor: the textarea, the snapshot of the prompt last loaded or  *)
(* saved, and the save and reset buttons.  An editor state is the record   *)
(* [value, snapshot, buttons |-> [saveDisabled, resetDisabled]].           *)
(***************************************************************************)
PromptTexts == {"", "P1", "P1x"}

\* a response without a prompt: promptDoc?.prompt undefined, response.prompt null
NoPrompt == "null"

\* the editor as the page markup leaves it: empty textarea, buttons disabled
InitialEditor ==
    [value |-> "", snapshot |-> "",
     buttons |-> [saveDisabled |-> TRUE, resetDisabled |-> TRUE]]

Editor == [value |-> promptTextarea, snapshot |-> promptSnapshot, buttons |-> promptButtons]

SetEditor(e) ==
    /\ promptTextarea' = e.value
    /\ promptSnapshot' = e.snapshot
    /\ promptButtons' = e.buttons

\* mutant of updatePromptActions: only the save button follows the dirty flag
updatePromptActionsSaveOnly(e) ==
    [e EXCEPT !.buttons.saveDisabled = ~(e.value # e.snapshot)]

updatePromptActions(e) ==
    LET isDirty == e.value # e.snapshot
    IN  [e EXCEPT !.buttons = [saveDisabled |-> ~isDirty, resetDisabled |-> ~isDirty]]

\* applyPrompt(promptText): promptText || ''
applyPrompt(e, promptText) ==
    LET text == IF promptText = NoPrompt THEN "" ELSE promptText
    IN  updatePromptActions([e EXCEPT !.snapshot = text, !.value = text])

\* resetPromptButton click
resetPrompt(e) == updatePromptActions([e EXCEPT !.value = e.snapshot])

PromptTask(kind, body) == [kind |-> kind, body |-> body]

PromptOp(kind, before) == [kind |-> kind, before |-> before]

PromptIdle ==
    /\ promptTextarea = ""
    /\ promptSnapshot = ""
    /\ promptButtons = InitialEditor.buttons
    /\ promptTasks = {}
    /\ pLast = PromptOp("none", InitialEditor)

TruncIdle ==
    /\ truncText = ""
    /\ truncMaxWidth = 0
    /\ truncPc = "idle"
    /\ truncResult = ""

AsideIdle == PromptIdle /\ TruncIdle

(***************************************************************************)
(* Merge harness: mergeGraph applied once and then again with the same     *)
(* payload, from every graph that merges, removals and clears produce.     *)
(***************************************************************************)
HarnessInit ==
    /\ cyNodes = {} /\ cyEdges = {}
    /\ cySelected = {} /\ selectedNodeIds = {} /\ multiSelectMode = FALSE
    /\ buttonsEnabled = FALSE /\ tasks = {} /\ lastOp = Other
    /\ mergePc = "idle" /\ mergeInput = NoPayload
    /\ mergeBefore = EmptyGraph /\ mergeOnce = EmptyGraph
    /\ HealthIdle
    /\ GatewayIdle
    /\ AsideIdle

\* mergeGraph(graphData)
HarnessMerge ==
    /\ mergePc = "idle"
    /\ \E graphData \in Payloads :
        LET g == mergeGraph(Graph, graphData)
        IN  /\ cyNodes' = g.nodes /\ cyEdges' = g.edges
            /\ mergeInput' = graphData
            /\ mergeBefore' = Graph
            /\ mergeOnce' = g
    /\ mergePc' = "once"
    /\ UNCHANGED << uiVars, healthVars, gatewayVars, asideVars >>

\* mergeGraph(graphData) again, with the same payload
HarnessMergeAgain ==
    /\ mergePc = "once"
    /\ LET g == mergeGraph(Graph, mergeInput)
       IN  cyNodes' = g.nodes /\ cyEdges' = g.edges
    /\ mergePc' = "twice"
    /\ UNCHANGED << mergeInput, mergeBefore, mergeOnce >>
    /\ UNCHANGED << uiVars, healthVars, gatewayVars, asideVars >>

\* the harness forgets the merge and goes on from the graph it produced
HarnessContinue ==
    /\ mergePc \in {"once", "twice"}
    /\ mergePc' = "idle" /\ mergeInput' = NoPayload
    /\ mergeBefore' = EmptyGraph /\ mergeOnce' = EmptyGraph
    /\ UNCHANGED graphVars
    /\ UNCHANGED << uiVars, healthVars, gatewayVars, asideVars >>

\* cy.remove of a set of node ids (the delete handler's removal)
HarnessRemove ==
    /\ mergePc = "idle"
    /\ \E ids \in (SUBSET { n.id : n \in cyNodes }) \ {{}} :
        LET g == cyRemove(Graph, ids)
        IN  cyNodes' = g.nodes /\ cyEdges' = g.edges
    /\ UNCHANGED harnessVars
    /\ UNCHANGED << uiVars, healthVars, gatewayVars, asideVars >>

\* cy.elements().remove() (the clear-all handler's removal)
HarnessClear ==
    /\ mergePc = "idle"
    /\ cyNodes # {}
    /\ cyNodes' = {} /\ cyEdges' = {}
    /\ UNCHANGED harnessVars
    /\ UNCHANGED << uiVars, healthVars, gatewayVars, asideVars >>

HarnessNext ==
    \/ HarnessMerge
    \/ HarnessMergeAgain
    \/ HarnessContinue
    \/ HarnessRemove
    \/ HarnessClear

SpecMerge == HarnessInit /\ [][HarnessNext]_vars

(***************************************************************************)
(* Claims about mergeGraph, checked under SpecMerge.                       *)
(***************************************************************************)
nodeIds(g) == { n.id : n \in g.nodes }

payloadNodes(graphData) == IF graphData = NoPayload THEN << >> ELSE graphData.nodes

payloadEdges(graphData) == IF graphData = NoPayload THEN << >> ELSE graphData.edges

\* the edge elements of g that carry the triple of the incoming edge
edgesFor(g, edge) ==
    { x \in g.edges : x.source = edge.source_id /\ x.target = edge.target_id
                      /\ x.label = edge.label }

compositeId(edge) == edge.source_id \o "-" \o edge.target_id \o "-" \o edge.label

\* C1: merging a payload twice leaves the same node ids and the same name,
\* description, displayName and fontSize on every node as merging it once.
C1_MergeTwiceEqualsOnce ==
    mergePc = "twice" => cyNodes = mergeOnce.nodes

\* C2: an edge whose endpoints are in the graph and that is merged in two
\* separate calls ends up as exactly one edge, with id source-target-label,
\* and the second call inserts nothing.
C2_EdgeMergedTwiceIsOne ==
    mergePc = "twice" =>
        /\ cyEdges = mergeOnce.edges
        /\ \A i \in 1..Len(payloadEdges(mergeInput)) :
            LET edge == payloadEdges(mergeInput)[i]
            IN  {edge.source_id, edge.target_id} \subseteq nodeIds(mergeBefore)
                => /\ Cardinality(edgesFor(Graph, edge)) = 1
                   /\ \A x \in edgesFor(Graph, edge) : x.id = compositeId(edge)

\* the positions of the payload that list the same edge as position i
sameEdgeAt(graphData, i) ==
    { j \in 1..Len(payloadEdges(graphData)) :
        payloadEdges(graphData)[j] = payloadEdges(graphData)[i] }

\* C3: one merge call whose payload lists the same edge more than once
\* inserts that edge exactly once (its endpoints being in the graph once the
\* batch is applied, and the edge not being there before).
C3_DuplicateInPayloadInsertedOnce ==
    mergePc = "once" =>
        \A i \in 1..Len(payloadEdges(mergeInput)) :
            LET edge == payloadEdges(mergeInput)[i]
            IN  (/\ Cardinality(sameEdgeAt(mergeInput, i)) > 1
                 /\ {edge.source_id, edge.target_id} \subseteq nodeIds(Graph)
                 /\ edgesFor(mergeBefore, edge) = {})
                => Cardinality(edgesFor(Graph, edge)) = 1

\* C4: merge removes nothing: every node id and every edge id of the graph
\* before the merge is in the graph after it.
C4_MergeNeverRemoves ==
    mergePc = "once" =>
        /\ nodeIds(mergeBefore) \subseteq nodeIds(Graph)
        /\ { e.id : e \in mergeBefore.edges } \subseteq { e.id : e \in cyEdges }

C4_Witness ==
    /\ mergePc = "once"
    /\ mergeBefore.nodes # {} /\ mergeBefore.edges # {}
    /\ mergeInput # NoPayload
    /\ Len(mergeInput.nodes) = 1 /\ Len(mergeInput.edges) = 0
    /\ mergeInput.nodes[1].id \notin nodeIds(mergeBefore)

\* C5: the graph holds at most one edge for each (source, target, label).
C5_OneEdgePerTriple ==
    \A x, y \in cyEdges :
        (x.source = y.source /\ x.target = y.target /\ x.label = y.label) => x = y

C5_Witness ==
    /\ mergePc = "twice"
    /\ \E i \in 1..Len(payloadEdges(mergeInput)) :
        /\ Cardinality(sameEdgeAt(mergeInput, i)) > 1
        /\ edgesFor(Graph, payloadEdges(mergeInput)[i]) # {}

C37_EveryNewEdgePresent ==
    mergePc = "once" =>
        \A i \in 1..Len(payloadEdges(mergeInput)) :
            LET edge == payloadEdges(mergeInput)[i]
            IN  {edge.source_id, edge.target_id} \subseteq nodeIds(Graph)
                => edgesFor(Graph, edge) # {}

\* C38: after a merge the graph holds at most one node per id, and the batch
\* the merge handed to the library held at most one insertion per node id.
C38_OneInsertionPerNodeId ==
    (mergePc = "once" /\ mergeInput # NoPayload) =>
        /\ \A x, y \in cyNodes : x.id = y.id => x = y
        /\ LET queue == mergeQueue(mergeBefore, mergeInput).queue
           IN  \A i, j \in 1..Len(queue) :
                   (/\ queue[i].group = "nodes" /\ queue[j].group = "nodes"
                    /\ queue[i].id = queue[j].id) => i = j

\* the last entry of the payload for node id
lastEntryFor(graphData, id) ==
    LET at == { i \in 1..Len(payloadNodes(graphData)) : payloadNodes(graphData)[i].id = id }
    IN  payloadNodes(graphData)[CHOOSE i \in at : \A j \in at : j <= i]

\* C7: a payload node whose id is in the graph overwrites that node's name,
\* description, displayName and fontSize, keeps the id, and adds no node.
C7_UpsertOverwrites ==
    mergePc = "once" =>
        /\ \A i \in 1..Len(payloadNodes(mergeInput)) :
            LET id == payloadNodes(mergeInput)[i].id
                entry == lastEntryFor(mergeInput, id)
            IN  id \in nodeIds(mergeBefore) =>
                    \E n \in cyNodes :
                        /\ n.id = id
                        /\ n.name = entry.name
                        /\ n.description = entry.description
                        /\ n.displayName = computeNodeVisuals(entry.name).displayName
                        /\ n.fontSize = fontSize
                        /\ \A m \in cyNodes : m.id = id => m = n
        /\ (\A i \in 1..Len(payloadNodes(mergeInput)) :
                payloadNodes(mergeInput)[i].id \in nodeIds(mergeBefore))
           => /\ Cardinality(cyNodes) = Cardinality(mergeBefore.nodes)
              /\ nodeIds(Graph) = nodeIds(mergeBefore)

C7_Witness ==
    /\ mergePc = "once"
    /\ Len(payloadNodes(mergeInput)) = 1
    /\ mergeInput.nodes[1].id \in nodeIds(mergeBefore)
    /\ cyNodes # mergeBefore.nodes
    /\ Cardinality(cyNodes) = 2

(***************************************************************************)
(* Selection Manager (multi-select script).  A selection state is a record *)
(* [selected |-> cy's selected nodes, ids |-> state.selectedNodeIds,       *)
(*  enabled |-> the action buttons are enabled].                           *)
(***************************************************************************)
SelState == [selected |-> cySelected, ids |-> selectedNodeIds, enabled |-> buttonsEnabled]

\* mutant of updateSelectionState: the action buttons are left as they were
updateSelectionStateKeepsButtons(st) ==
    [st EXCEPT !.ids = st.selected]

\* updateSelectionState(), the handler of 'select' and 'unselect' on nodes:
\* updateDetailsPanel and updateActionButtons set the buttons from the count
updateSelectionState(st) ==
    [st EXCEPT !.ids = st.selected, !.enabled = st.selected # {}]

\* eles.unselect(): the event is emitted only when a flag changed
unselect(st, targets) ==
    IF st.selected \cap targets = {} THEN st
    ELSE updateSelectionState([st EXCEPT !.selected = st.selected \ targets])

\* eles.select(): the event is emitted only when a flag changed
select(st, targets) ==
    IF targets \subseteq st.selected THEN st
    ELSE updateSelectionState([st EXCEPT !.selected = st.selected \cup targets])

\* clearSelection(): cy.elements().unselect()
clearSelection(g, st) == unselect(st, ElementIds(g))

\* selectNodeById(nodeId)
selectNodeById(g, st, nodeId) ==
    select(unselect(st, nodeIds(g)), {nodeId} \cap ElementIds(g))

\* mutant of tapNode: the tapped node is toggled whatever allowMulti is
tapNodeAlwaysToggles(g, st, tappedNode, allowMulti) ==
    IF tappedNode \in st.selected
    THEN unselect(st, {tappedNode})
    ELSE select(st, {tappedNode})

\* the 'tap' handler on a node
tapNode(g, st, tappedNode, allowMulti) ==
    IF ~allowMulti
    THEN select(unselect(st, nodeIds(g)), {tappedNode})
    ELSE IF tappedNode \in st.selected
         THEN unselect(st, {tappedNode})
         ELSE select(st, {tappedNode})

\* the library's own selection gesture on a tapped element (selectionType
\* 'single', the default of cytoscape({...}))
gestureSelect(st, near, multSelKeyDown) ==
    IF multSelKeyDown
    THEN IF near \in st.selected
         THEN unselect(st, {near})
         ELSE select(st, {near})
    ELSE select(unselect(st, st.selected \ {near}), {near})

\* elements removed from the graph leave cy.nodes(':selected') without any
\* 'unselect' event
dropRemoved(g, st) == [st EXCEPT !.selected = st.selected \cap nodeIds(g)]

SetGraph(g) == cyNodes' = g.nodes /\ cyEdges' = g.edges

SetSel(st) ==
    /\ cySelected' = st.selected
    /\ selectedNodeIds' = st.ids
    /\ buttonsEnabled' = st.enabled

Task(kind, ids) == [kind |-> kind, ids |-> ids]


\* runTask(message, task) up to the request it awaits
StartTask(t) ==
    /\ Cardinality(tasks) < MaxTasks
    /\ t \notin tasks
    /\ tasks' = tasks \cup {t}

\* the request of task t is answered and runTask returns
EndTask(t) == tasks' = tasks \ {t}

(***************************************************************************)
(* Handlers of the multi-select script.                                    *)
(***************************************************************************)
\* the bodies the backend answers GET /graph and the expansions with: null, or
\* at most one node and one edge (SpecMerge covers the longer payloads; a
\* longer response builds no graph that these do not build one by one)
ResponsePayloads ==
    {NoPayload} \cup
    { [nodes |-> ns, edges |-> es] :
        ns \in {<< >>} \cup { << n >> : n \in Range(NodePool) },
        es \in {<< >>} \cup { << e >> : e \in Range(EdgePool) } }

Init ==
    /\ cyNodes = {} /\ cyEdges = {}
    /\ cySelected = {} /\ selectedNodeIds = {}
    /\ multiSelectMode = FALSE
    /\ buttonsEnabled = FALSE
    /\ tasks = {Task("boot", {})}
    /\ lastOp = Other
    /\ mergePc = "idle" /\ mergeInput = NoPayload
    /\ mergeBefore = EmptyGraph /\ mergeOnce = EmptyGraph
    /\ HealthIdle
    /\ GatewayIdle
    /\ AsideIdle

\* bootstrapWorkspace: both requests answered
BootResolve ==
    /\ Task("boot", {}) \in tasks
    /\ \E graph \in ResponsePayloads :
        LET g == mergeGraph(EmptyGraph, graph)
        IN  /\ SetGraph(g)
            /\ SetSel(dropRemoved(g, SelState))
    /\ EndTask(Task("boot", {}))
    /\ lastOp' = Other
    /\ UNCHANGED << multiSelectMode, harnessVars, healthVars, gatewayVars, asideVars >>

\* bootstrapWorkspace: a request failed
BootFail ==
    /\ Task("boot", {}) \in tasks
    /\ EndTask(Task("boot", {}))
    /\ lastOp' = Other
    /\ UNCHANGED << graphVars, cySelected, selectedNodeIds, buttonsEnabled,
                    multiSelectMode, harnessVars, healthVars, gatewayVars, asideVars >>

\* expandButton click
ExpandClick ==
    /\ selectedNodeIds # {}
    /\ StartTask(Task("expand", {}))
    /\ lastOp' = Other
    /\ UNCHANGED << graphVars, cySelected, selectedNodeIds, buttonsEnabled,
                    multiSelectMode, harnessVars, healthVars, gatewayVars, asideVars >>

\* POST /graph/execute-action answered: mergeGraph(graph)
ExpandResolve ==
    /\ Task("expand", {}) \in tasks
    /\ \E graph \in ResponsePayloads : SetGraph(mergeGraph(Graph, graph))
    /\ EndTask(Task("expand", {}))
    /\ lastOp' = Other
    /\ UNCHANGED << cySelected, selectedNodeIds, buttonsEnabled, multiSelectMode,
                    harnessVars, healthVars, gatewayVars, asideVars >>

ExpandFail ==
    /\ Task("expand", {}) \in tasks
    /\ EndTask(Task("expand", {}))
    /\ lastOp' = Other
    /\ UNCHANGED << graphVars, cySelected, selectedNodeIds, buttonsEnabled,
                    multiSelectMode, harnessVars, healthVars, gatewayVars, asideVars >>

\* deleteButton click, confirmed: one DELETE per selected id is sent, all in
\* one Promise.all
DeleteClick ==
    /\ selectedNodeIds # {}
    /\ StartTask(Task("delete", selectedNodeIds))
    /\ lastOp' = Other
    /\ UNCHANGED << graphVars, cySelected, selectedNodeIds, buttonsEnabled,
                    multiSelectMode, harnessVars, healthVars, gatewayVars, asideVars >>

\* cy.remove(state.selectedNodeIds.map(id => `#${id}`).join(', ')): with no id
\* left the selector is the empty string, which the library may take as
\* matching nothing or as no filter at all
removeSelected(g, ids, emptyMatchesAll) ==
    IF ids # {} THEN cyRemove(g, ids)
    ELSE IF emptyMatchesAll THEN EmptyGraph ELSE g

\* every DELETE answered: the nodes selected now are removed
DeleteResolve ==
    \E t \in tasks :
        /\ t.kind = "delete"
        /\ \E emptyMatchesAll \in BOOLEAN :
            LET g == removeSelected(Graph, selectedNodeIds, emptyMatchesAll)
            IN  /\ SetGraph(g)
                /\ SetSel(clearSelection(g, dropRemoved(g, SelState)))
        /\ EndTask(t)
        /\ lastOp' = Op("deleteDone", selectedNodeIds, t.ids)
        /\ UNCHANGED << multiSelectMode, harnessVars, healthVars, gatewayVars, asideVars >>

DeleteFail ==
    \E t \in tasks :
        /\ t.kind = "delete"
        /\ EndTask(t)
        /\ lastOp' = Op("deleteFailed", selectedNodeIds, t.ids)
        /\ UNCHANGED << graphVars, cySelected, selectedNodeIds, buttonsEnabled,
                        multiSelectMode, harnessVars, healthVars, gatewayVars, asideVars >>

\* addNodeForm submit with a name and a description
\* what the user has typed into the add-node form: name and description
FormContents ==
    { [name |-> "n", description |-> "d"],
      [name |-> " ", description |-> "d"],
      [name |-> "n", description |-> ""],
      [name |-> "",  description |-> " "] }

\* (formData.get(field) || '').toString().trim()
formValue(raw) == trim(raw)

\* mutant of addNodeFormValid: the fields are not trimmed
addNodeFormValidUntrimmed(form) == form.name # "" /\ form.description # ""

\* addNodeForm submit: !(!name || !description)
addNodeFormValid(form) ==
    formValue(form.name) # "" /\ formValue(form.description) # ""

\* history of a submit of the add-node form, with the fields as typed
FormOp(form, before) ==
    [kind |-> "addNodeSubmit", ids |-> {}, before |-> before,
     name |-> form.name, description |-> form.description]

\* addNodeForm submit: alert and return when a field is empty, else runTask
\* up to POST /nodes
AddNodeSubmit ==
    \E form \in FormContents :
        /\ IF addNodeFormValid(form)
           THEN StartTask(Task("add", {}))
           ELSE UNCHANGED tasks
        /\ lastOp' = FormOp(form, selectedNodeIds)
        /\ UNCHANGED << graphVars, cySelected, selectedNodeIds, buttonsEnabled,
                        multiSelectMode, harnessVars, healthVars, gatewayVars, asideVars >>

\* POST /nodes answered with the new node
AddNodeResolve ==
    /\ Task("add", {}) \in tasks
    /\ \E newNode \in Range(NodePool) :
        LET g == mergeGraph(Graph, [nodes |-> << newNode >>, edges |-> << >>])
        IN  /\ SetGraph(g)
            /\ SetSel(selectNodeById(g, SelState, newNode.id))
            /\ lastOp' = Other
    /\ EndTask(Task("add", {}))
    /\ UNCHANGED << multiSelectMode, harnessVars, healthVars, gatewayVars, asideVars >>

AddNodeFail ==
    /\ Task("add", {}) \in tasks
    /\ EndTask(Task("add", {}))
    /\ lastOp' = Other
    /\ UNCHANGED << graphVars, cySelected, selectedNodeIds, buttonsEnabled,
                    multiSelectMode, harnessVars, healthVars, gatewayVars, asideVars >>

\* clearGraphButton click, confirmed
ClearClick ==
    /\ cyNodes # {}
    /\ StartTask(Task("clear", {}))
    /\ lastOp' = Other
    /\ UNCHANGED << graphVars, cySelected, selectedNodeIds, buttonsEnabled,
                    multiSelectMode, harnessVars, healthVars, gatewayVars, asideVars >>

\* DELETE /graph answered: cy.elements().remove(); clearSelection()
ClearResolve ==
    /\ Task("clear", {}) \in tasks
    /\ SetGraph(EmptyGraph)
    /\ SetSel(clearSelection(EmptyGraph, dropRemoved(EmptyGraph, SelState)))
    /\ EndTask(Task("clear", {}))
    /\ lastOp' = Op("clearDone", selectedNodeIds, {})
    /\ UNCHANGED << multiSelectMode, harnessVars, healthVars, gatewayVars, asideVars >>

ClearFail ==
    /\ Task("clear", {}) \in tasks
    /\ EndTask(Task("clear", {}))
    /\ lastOp' = Op("clearFailed", selectedNodeIds, {})
    /\ UNCHANGED << graphVars, cySelected, selectedNodeIds, buttonsEnabled,
                    multiSelectMode, harnessVars, healthVars, gatewayVars, asideVars >>

\* tap on a node of the canvas
TapNode ==
    \E tappedNode \in nodeIds(Graph), shiftKey \in BOOLEAN, gestureFirst \in BOOLEAN :
        /\ SetSel(IF gestureFirst
                  THEN tapNode(Graph, gestureSelect(SelState, tappedNode, shiftKey),
                               tappedNode, shiftKey \/ multiSelectMode)
                  ELSE gestureSelect(
                           tapNode(Graph, SelState, tappedNode, shiftKey \/ multiSelectMode),
                           tappedNode, shiftKey))
        /\ lastOp' = Op(IF shiftKey THEN "shiftTap" ELSE "tap", {tappedNode}, selectedNodeIds)
        /\ UNCHANGED << graphVars, multiSelectMode, tasks, harnessVars, healthVars, gatewayVars, asideVars >>

\* tap on an edge of the canvas, no modifier key: no listener of the script
\* runs; the library's gesture unselects the selected nodes
TapEdge ==
    /\ cyEdges # {}
    /\ SetSel(unselect(SelState, cySelected))
    /\ lastOp' = Other
    /\ UNCHANGED << graphVars, multiSelectMode, tasks, harnessVars, healthVars, gatewayVars, asideVars >>

\* tap on the background of the canvas: clearSelection(), then the library's
\* gesture, which finds nothing left to unselect
TapBackground ==
    /\ SetSel(unselect(clearSelection(Graph, SelState), cySelected))
    /\ lastOp' = Op("tapBackground", {}, selectedNodeIds)
    /\ UNCHANGED << graphVars, multiSelectMode, tasks, harnessVars, healthVars, gatewayVars, asideVars >>

\* mobileMultiSelectBtn click
ToggleMultiSelect ==
    /\ multiSelectMode' = ~multiSelectMode
    /\ lastOp' = Other
    /\ UNCHANGED << graphVars, cySelected, selectedNodeIds, buttonsEnabled, tasks,
                    harnessVars, healthVars, gatewayVars, asideVars >>

Next ==
    \/ BootResolve
    \/ BootFail
    \/ ExpandClick
    \/ ExpandResolve
    \/ ExpandFail
    \/ DeleteClick
    \/ DeleteResolve
    \/ DeleteFail
    \/ AddNodeSubmit
    \/ AddNodeResolve
    \/ AddNodeFail
    \/ ClearClick
    \/ ClearResolve
    \/ ClearFail
    \/ TapNode
    \/ TapEdge
    \/ TapBackground
    \/ ToggleMultiSelect

Spec == Init /\ [][Next]_vars

(***************************************************************************)
(* Claims about the selection, checked under Spec.                         *)
(***************************************************************************)
\* C8: every id of the selection state is the id of a node of the visual
\* graph.
C8_SelectionWithinGraph == selectedNodeIds \subseteq nodeIds(Graph)

\* C9: after a delete completed, none of the deleted ids is in the selection
\* state; with nothing else selected the selection is empty and the expand
\* and delete buttons are disabled.
C9_DeleteClearsSelection ==
    lastOp.kind = "deleteDone" =>
        /\ lastOp.ids \cap selectedNodeIds = {}
        /\ cySelected = {} => (selectedNodeIds = {} /\ ~buttonsEnabled)

\* C35: when an expansion requested before a delete completed is merged right
\* after it, none of the nodes deleted is in the graph again, and no edge of
\* the graph has such a node as an endpoint.
C35_NoResurrection ==
    [][(/\ lastOp.kind = "deleteDone"
        /\ Task("expand", {}) \in tasks
        /\ Task("expand", {}) \notin tasks')
       => LET deleted == (lastOp.ids \cap lastOp.before) \ nodeIds(Graph)
          IN  /\ deleted \cap nodeIds([nodes |-> cyNodes', edges |-> cyEdges']) = {}
              /\ \A e \in cyEdges' : e.source \notin deleted /\ e.target \notin deleted]_vars

\* C36: the nodes a delete removes from the visual graph are exactly the
\* nodes of the graph for which the DELETE requests were sent, also when the
\* selection changed while the requests were in flight.
C36_RemovedAreThoseSent ==
    [][lastOp'.kind = "deleteDone"
       => nodeIds(Graph) \ nodeIds([nodes |-> cyNodes', edges |-> cyEdges'])
              = lastOp'.before \cap nodeIds(Graph)]_vars

\* C40: a clear-all or a delete one of whose DELETE requests failed leaves
\* the visual graph and the selection as they were; after a clear-all that
\* succeeded the graph and the selection are empty, after a delete that
\* succeeded the selection is.
C40_FailureKeepsSuccessEmpties ==
    /\ [][lastOp'.kind \in {"clearFailed", "deleteFailed"} =>
            UNCHANGED << cyNodes, cyEdges, cySelected, selectedNodeIds >>]_vars
    /\ [](/\ lastOp.kind = "clearDone" =>
                /\ cyNodes = {} /\ cyEdges = {}
                /\ cySelected = {} /\ selectedNodeIds = {}
          /\ lastOp.kind = "deleteDone" =>
                cySelected = {} /\ selectedNodeIds = {})

\* C10: with multi-select mode off and no modifier key, a tap on node n makes
\* the selection exactly {n}, whatever was selected before.
C10_PlainTapSelectsOnlyThat ==
    (lastOp.kind = "tap" /\ ~multiSelectMode) =>
        /\ selectedNodeIds = lastOp.ids
        /\ cySelected = lastOp.ids
        /\ buttonsEnabled

\* node B tapped with another node selected
C10_Witness ==
    /\ lastOp.kind = "tap" /\ ~multiSelectMode
    /\ lastOp.before # {}
    /\ lastOp.before \cap lastOp.ids = {}
    /\ lastOp.before \subseteq nodeIds(Graph)
    /\ selectedNodeIds = lastOp.ids

\* C11: with multi-select on (the toggle button or the shift key), a tap on
\* node n changes the selection set S only by toggling n: S becomes S \cup {n}
\* when n is not in S and S \ {n} when it is.
C11_MultiTapToggles ==
    (lastOp.kind = "shiftTap" \/ (lastOp.kind = "tap" /\ multiSelectMode)) =>
        selectedNodeIds = IF lastOp.ids \subseteq lastOp.before
                          THEN lastOp.before \ lastOp.ids
                          ELSE lastOp.before \cup lastOp.ids

\* C12: the expand and delete buttons are enabled if and only if the
\* selection set is not empty.
C12_ButtonsIffSelection == buttonsEnabled <=> (selectedNodeIds # {})

\* a tap on the background emptied a selection and disabled the buttons
C12_Witness ==
    /\ lastOp.kind = "tapBackground"
    /\ lastOp.before # {}
    /\ selectedNodeIds = {}
    /\ ~buttonsEnabled

\* C30: a submit of the add-node form with an empty name or an empty
\* description, after trimming, starts no task and sends no request, and
\* leaves the visual graph and the selection as they are.
C30_EmptyFormSendsNothing ==
    [][(lastOp'.kind = "addNodeSubmit" /\
        (formValue(lastOp'.name) = "" \/ formValue(lastOp'.description) = "")) =>
            UNCHANGED << tasks, overlayState, requestLog, graphVars, cySelected,
                         selectedNodeIds, buttonsEnabled >>]_vars

\* a name of blanks was submitted with a node selected and no task running
C30_Witness ==
    /\ lastOp.kind = "addNodeSubmit"
    /\ lastOp.name = " "
    /\ lastOp.description = "d"
    /\ tasks = {}
    /\ selectedNodeIds # {}
    /\ lastOp.before = selectedNodeIds

(***************************************************************************)
(* Task Runner, Request Gateway and health probes over the health state.   *)
(* A running task is [label, phase]: "sent" while its request is           *)
(* unanswered, "body2xx" / "body4xx" / "body5xx" while the response body   *)
(* is being read.                                                          *)
(***************************************************************************)
UserTaskLabels == {"Creating node"}

RunningTask(label, phase) == [label |-> label, phase |-> phase]

SetRunning(t, phase) == running' = (running \ {t}) \cup {RunningTask(t.label, phase)}

\* mutant of requestNotOk: every status that is not ok begins the recovery
requestNotOkAlwaysRecovers(h, status) ==
    beginBackendRecovery(h, "Backend issue detected")

\* request: if (!response.ok) { if (response.status >= 500) beginBackendRecovery(...) }
requestNotOk(h, status) ==
    IF status >= 500 THEN beginBackendRecovery(h, "Backend issue detected") ELSE h

\* runTask: catch (showTransientStatus) and finally (hideLoading)
runTaskCatch(h, message) == hideLoading(showTransientStatus(h, Plain(message)))

HealthInit ==
    /\ GraphIdle
    /\ GatewayIdle
    /\ AsideIdle
    /\ readinessVariant \in BOOLEAN
    /\ now = 0
    /\ hLast = NoEvent
    /\ probes = [initial |-> 1, poller |-> 0]
    /\ IF readinessVariant
       THEN /\ overlayState = InitialOverlayState
            /\ overlay = InitialOverlay
            /\ running = {}
            /\ readiness = "probing"
       ELSE /\ overlayState =
                showLoading(InitialHealth(FALSE), Plain("Loading workspace")).overlayState
            /\ overlay = showLoading(InitialHealth(FALSE), Plain("Loading workspace")).overlay
            /\ running = {RunningTask("Loading workspace", "sent")}
            /\ readiness = "none"
    /\ backendWaitState = NoWait("Spinning up backend")
    /\ databaseWaitState = NoWait("Waiting for database")
    /\ backendHealthCheckIntervalId = FALSE
    /\ timers = NoTimers

\* a second passes
Tick ==
    /\ now < MaxClock
    /\ now' = now + 1
    /\ hLast' = NoEvent
    /\ UNCHANGED << readinessVariant, overlayState, backendWaitState, databaseWaitState,
                    backendHealthCheckIntervalId, timers, overlay, running, probes, readiness >>
    /\ UNCHANGED << graphVars, uiVars, harnessVars, gatewayVars, asideVars >>

\* setInterval(updateBackendWaitMessage, 1000) fires
BackendTicker ==
    /\ backendWaitState.timerId
    /\ SetHealth(updateBackendWaitMessage(Health))
    /\ hLast' = NoEvent
    /\ UNCHANGED << running, probes, readiness, graphVars, uiVars, harnessVars, gatewayVars, asideVars >>

\* setInterval(updateDatabaseWaitMessage, 1000) fires
DatabaseTicker ==
    /\ databaseWaitState.timerId
    /\ SetHealth(updateDatabaseWaitMessage(Health))
    /\ hLast' = NoEvent
    /\ UNCHANGED << running, probes, readiness, graphVars, uiVars, harnessVars, gatewayVars, asideVars >>

\* the timeout of showTransientStatus fires
TransientTimeout ==
    /\ \E id \in timers.transient : SetHealth(transientExpired(Health, id))
    /\ hLast' = NoEvent
    /\ UNCHANGED << running, probes, readiness, graphVars, uiVars, harnessVars, gatewayVars, asideVars >>

\* a handler calls runTask(label, task): showLoading, then the request is sent
TaskStart ==
    \E label \in UserTaskLabels :
        /\ \A t \in running : t.label # label
        /\ SetHealth(showLoading(Health, Plain(label)))
        /\ running' = running \cup {RunningTask(label, "sent")}
        /\ hLast' = NoEvent
        /\ UNCHANGED << probes, readiness, graphVars, uiVars, harnessVars, gatewayVars, asideVars >>

\* request: fetch rejects; beginBackendRecovery, throw, runTask catches
RequestTransportFails ==
    \E t \in running :
        /\ t.phase = "sent"
        /\ SetHealth(runTaskCatch(beginBackendRecovery(Health, "Backend is waking up"),
                                  "Backend is waking up"))
        /\ running' = running \ {t}
        /\ hLast' = Event("transport", "Backend is waking up", Health)
        /\ UNCHANGED << probes, readiness, graphVars, uiVars, harnessVars, gatewayVars, asideVars >>

\* request: status >= 500; beginBackendRecovery, then await response.text()
RequestStatus5xx ==
    \E t \in running :
        /\ t.phase = "sent"
        /\ \E status \in {500, 503} : SetHealth(requestNotOk(Health, status))
        /\ SetRunning(t, "body5xx")
        /\ hLast' = Event("status5xx", "Backend issue detected", Health)
        /\ UNCHANGED << probes, readiness, graphVars, uiVars, harnessVars, gatewayVars, asideVars >>

\* request: another status that is not ok; await response.text()
RequestStatus4xx ==
    \E t \in running :
        /\ t.phase = "sent"
        /\ \E status \in {404, 499} : SetHealth(requestNotOk(Health, status))
        /\ SetRunning(t, "body4xx")
        /\ hLast' = Event("status4xx", "", Health)
        /\ UNCHANGED << probes, readiness, graphVars, uiVars, harnessVars, gatewayVars, asideVars >>

\* request: status 2xx; markBackendOnline, then the body is read
RequestStatus2xx ==
    \E t \in running :
        /\ t.phase = "sent"
        /\ SetHealth(markBackendOnline(Health))
        /\ SetRunning(t, "body2xx")
        /\ hLast' = Event("status2xx", "", Health)
        /\ UNCHANGED << probes, readiness, graphVars, uiVars, harnessVars, gatewayVars, asideVars >>

\* request: the error body is read, the request throws, runTask catches
RequestThrows ==
    \E t \in running :
        /\ t.phase \in {"body4xx", "body5xx"}
        /\ SetHealth(runTaskCatch(Health, "Request failed"))
        /\ running' = running \ {t}
        /\ hLast' = IF t.phase = "body4xx" THEN Event("failed4xx", "", Health) ELSE NoEvent
        /\ UNCHANGED << probes, readiness, graphVars, uiVars, harnessVars, gatewayVars, asideVars >>

\* request: the body is read, the task goes on to its end; hideLoading
TaskCompletes ==
    \E t \in running :
        /\ t.phase = "body2xx"
        /\ SetHealth(hideLoading(Health))
        /\ running' = running \ {t}
        /\ hLast' = IF t.label = "Loading workspace"
                    THEN Event("workspaceLoaded", "", Health) ELSE NoEvent
        /\ UNCHANGED << probes, readiness, graphVars, uiVars, harnessVars, gatewayVars, asideVars >>

ProbeKinds == {"initial", "poller"}

ProbeDone(kind) == probes' = [probes EXCEPT ![kind] = @ - 1]

\* the recovery poller fires: a health probe is sent
PollerFires ==
    /\ timers.poller > 0
    /\ probes.poller < MaxProbes
    /\ probes' = [probes EXCEPT !.poller = @ + 1]
    /\ hLast' = NoEvent
    /\ UNCHANGED << readinessVariant, overlayState, backendWaitState, databaseWaitState,
                    backendHealthCheckIntervalId, timers, overlay, now, running, readiness >>
    /\ UNCHANGED << graphVars, uiVars, harnessVars, gatewayVars, asideVars >>

\* multi-select script, pingBackend: the probe is answered ok.  The caller is
\* evaluateHealthStatus (initial) or the poller, which clears its interval
PingSucceeds ==
    \E kind \in ProbeKinds :
        /\ ~readinessVariant
        /\ probes[kind] > 0
        /\ SetHealth(IF kind = "poller"
                     THEN stopBackendRecoveryPolling(markBackendOnline(Health))
                     ELSE markBackendOnline(Health))
        /\ ProbeDone(kind)
        /\ hLast' = Event(IF kind = "poller" THEN "pollProbeOk" ELSE "probeOk", "", Health)
        /\ UNCHANGED << running, readiness, graphVars, uiVars, harnessVars, gatewayVars, asideVars >>

\* multi-select script, pingBackend: the probe fails or is answered not ok;
\* evaluateHealthStatus begins the recovery, the poller does nothing
PingFails ==
    \E kind \in ProbeKinds :
        /\ ~readinessVariant
        /\ probes[kind] > 0
        /\ SetHealth(IF kind = "initial"
                     THEN beginBackendRecovery(Health, "Connecting to backend")
                     ELSE Health)
        /\ ProbeDone(kind)
        /\ hLast' = Event(IF kind = "initial" THEN "probeFail" ELSE "pollProbeFail",
                          "Connecting to backend", Health)
        /\ UNCHANGED << running, readiness, graphVars, uiVars, harnessVars, gatewayVars, asideVars >>

\* readiness variant: what follows checkBackendStatus() both in
\* evaluateHealthStatus and in the poller when the backend is online
afterOnline(h, neo4jReady) ==
    IF neo4jReady
    THEN stopBackendRecoveryPolling(stopDatabaseWait(markBackendOnline(h)))
    ELSE startDatabaseWait(markBackendOnline(h))

\* readiness variant, checkBackendStatus: the probe fails or is not ok
StatusProbeOffline ==
    \E kind \in ProbeKinds :
        /\ readinessVariant
        /\ probes[kind] > 0
        /\ SetHealth(IF kind = "initial"
                     THEN beginBackendRecovery(Health, "Connecting to backend")
                     ELSE Health)
        /\ ProbeDone(kind)
        /\ readiness' = IF kind = "initial" THEN "delay" ELSE readiness
        /\ hLast' = Event(IF kind = "initial" THEN "probeFail" ELSE "pollProbeFail",
                          "Connecting to backend", Health)
        /\ UNCHANGED << running, graphVars, uiVars, harnessVars, gatewayVars, asideVars >>

\* readiness variant, checkBackendStatus: online, datastore not ready
StatusProbeNotReady ==
    \E kind \in ProbeKinds :
        /\ readinessVariant
        /\ probes[kind] > 0
        /\ SetHealth(afterOnline(Health, FALSE))
        /\ ProbeDone(kind)
        /\ readiness' = IF kind = "initial" THEN "delay" ELSE readiness
        /\ hLast' = Event(IF kind = "poller" THEN "pollProbeOk" ELSE "probeOk",
                          "notReady", Health)
        /\ UNCHANGED << running, graphVars, uiVars, harnessVars, gatewayVars, asideVars >>

\* readiness variant, checkBackendStatus: online and ready; when the caller
\* is waitForFullReadiness, bootstrapWorkspace starts its task
StatusProbeReady ==
    \E kind \in ProbeKinds :
        /\ readinessVariant
        /\ probes[kind] > 0
        /\ ProbeDone(kind)
        /\ IF kind = "initial"
           THEN /\ SetHealth(showLoading(afterOnline(Health, TRUE), Plain("Loading workspace")))
                /\ running' = running \cup {RunningTask("Loading workspace", "sent")}
                /\ readiness' = "done"
           ELSE /\ SetHealth(afterOnline(Health, TRUE))
                /\ UNCHANGED << running, readiness >>
        /\ hLast' = Event(IF kind = "poller" THEN "pollProbeOk" ELSE "probeOk",
                          "ready", Health)
        /\ UNCHANGED << graphVars, uiVars, harnessVars, gatewayVars, asideVars >>

\* readiness variant, waitForFullReadiness: the delay is over, probe again
ReadinessDelayElapsed ==
    /\ readiness = "delay"
    /\ readiness' = "probing"
    /\ probes' = [probes EXCEPT !.initial = @ + 1]
    /\ hLast' = NoEvent
    /\ UNCHANGED << readinessVariant, overlayState, backendWaitState, databaseWaitState,
                    backendHealthCheckIntervalId, timers, overlay, now, running >>
    /\ UNCHANGED << graphVars, uiVars, harnessVars, gatewayVars, asideVars >>

HealthNext ==
    \/ Tick
    \/ BackendTicker
    \/ DatabaseTicker
    \/ TransientTimeout
    \/ TaskStart
    \/ RequestTransportFails
    \/ RequestStatus5xx
    \/ RequestStatus4xx
    \/ RequestStatus2xx
    \/ RequestThrows
    \/ TaskCompletes
    \/ PollerFires
    \/ PingSucceeds
    \/ PingFails
    \/ StatusProbeOffline
    \/ StatusProbeNotReady
    \/ StatusProbeReady
    \/ ReadinessDelayElapsed

SpecHealth == HealthInit /\ [][HealthNext]_vars

(***************************************************************************)
(* Claims about the overlay, the task runner and the backend health,       *)
(* checked under SpecHealth.                                               *)
(***************************************************************************)
\* C13: the overlay shows the task message when taskDepth > 0, else the
\* backend-recovering message when active, else the datastore-wait message,
\* else the transient message, else it is hidden.
C13_OverlayPriority ==
    overlay =
        IF overlayState.taskDepth > 0
        THEN [hidden |-> FALSE, text |-> overlayState.taskMessage]
        ELSE IF overlayState.backend.active
        THEN [hidden |-> FALSE, text |-> overlayState.backend.message]
        ELSE IF overlayState.database.active
        THEN [hidden |-> FALSE, text |-> overlayState.database.message]
        ELSE IF overlayState.transient.active
        THEN [hidden |-> FALSE, text |-> overlayState.transient.message]
        ELSE [hidden |-> TRUE, text |-> Plain("Working")]

\* a task ended while the recovery was active: the recovery message is back
C13_Witness ==
    /\ hLast.kind = "failed4xx"
    /\ hLast.before.backend.active
    /\ overlayState.taskDepth = 0
    /\ overlayState.backend.active
    /\ overlayState.transient.active
    /\ overlay = [hidden |-> FALSE, text |-> overlayState.backend.message]

\* C14: taskDepth is the number of runTask invocations started and not
\* finished; it is never negative.
C14_TaskDepthCountsRunning ==
    /\ overlayState.taskDepth = Cardinality(running)
    /\ overlayState.taskDepth >= 0

\* a task failed while another one was running
C14_Witness ==
    /\ hLast.kind = "transport"
    /\ Cardinality(running) = 1
    /\ overlayState.taskDepth = 1

\* C15: whenever taskDepth > 0 the displayed message is the label of a task
\* that is still in progress.
C15_ShownLabelIsRunning ==
    overlayState.taskDepth > 0 =>
        /\ ~overlay.hidden
        /\ \E t \in running : overlay.text = Plain(t.label)

\* C16: a request whose transport fails, or whose status is >= 500, fails to
\* its caller and leaves backend-recovering active with its message prefix.
C16_FailureEntersRecovery ==
    hLast.kind \in {"transport", "status5xx"} =>
        /\ backendWaitState.active
        /\ backendWaitState.timerId
        /\ backendWaitState.baseMessage = hLast.prefix
        /\ overlayState.backend.active
        /\ overlayState.backend.message.text = hLast.prefix
        /\ hLast.kind = "transport" =>
               /\ overlayState.transient.active
               /\ overlayState.transient.message = Plain(hLast.prefix)
        /\ hLast.kind = "status5xx" => \E t \in running : t.phase = "body5xx"

C16_Witness ==
    /\ hLast.kind = "status5xx"
    /\ ~hLast.before.backendWaitState.active
    /\ backendWaitState.active
    /\ backendHealthCheckIntervalId

\* C17: a request answered with a status below 500 that is not ok fails to
\* its caller and leaves backend-recovering, datastore-wait, the tickers and
\* the poller as they were.
C17_ClientErrorKeepsHealth ==
    hLast.kind \in {"status4xx", "failed4xx"} =>
        /\ Conditions(Health) = hLast.before
        /\ hLast.kind = "status4xx" => \E t \in running : t.phase = "body4xx"
        /\ hLast.kind = "failed4xx" => overlayState.transient.active

\* the recovery was active and stays so
C17_Witness ==
    /\ hLast.kind = "status4xx"
    /\ hLast.before.backendWaitState.active
    /\ hLast.before.poller
    /\ backendWaitState.active

\* C18: right after a request received a 2xx response, backend-recovering and
\* datastore-wait are inactive and neither a ticker nor the poller is
\* scheduled.
C18_SuccessClearsHealth ==
    hLast.kind = "status2xx" =>
        /\ ~backendWaitState.active /\ ~backendWaitState.timerId
        /\ ~overlayState.backend.active
        /\ ~databaseWaitState.active /\ ~databaseWaitState.timerId
        /\ ~overlayState.database.active
        /\ ~backendHealthCheckIntervalId

\* C19: entering backend-recovering while it is active keeps the start time
\* and replaces the message prefix; the start time is set on the transition
\* from inactive to active.
C19_ReentryKeepsStartTime ==
    hLast.kind \in {"transport", "status5xx", "probeFail"} =>
        /\ backendWaitState.baseMessage = hLast.prefix
        /\ IF hLast.before.backendWaitState.active
           THEN backendWaitState.startTime = hLast.before.backendWaitState.startTime
           ELSE backendWaitState.startTime = now

\* a second failure, with another prefix, a second after the first
C19_Witness ==
    /\ hLast.kind = "transport"
    /\ hLast.before.backendWaitState.active
    /\ hLast.before.backendWaitState.baseMessage # hLast.prefix
    /\ backendWaitState.startTime < now

C22_AtMostOnePoller == timers.poller <= 1

\* a request failed while the poller was scheduled and its probe in flight
C22_Witness ==
    /\ hLast.kind = "status5xx"
    /\ hLast.before.poller
    /\ probes.poller = 1
    /\ timers.poller = 1

\* C23: in the readiness variant backend-recovering and datastore-wait are
\* never active together, and datastore-wait becomes active only in the
\* step of a probe that reported the backend online and the datastore not
\* ready.
C23_WaitsExclusive ==
    /\ [](readinessVariant =>
            /\ ~(backendWaitState.active /\ databaseWaitState.active)
            /\ ~(overlayState.backend.active /\ overlayState.database.active))
    /\ [][(databaseWaitState'.active /\ ~databaseWaitState.active) =>
            /\ hLast'.kind \in {"probeOk", "pollProbeOk"}
            /\ hLast'.prefix = "notReady"]_vars

\* a request failed during the datastore wait: recovery entered, wait ended
C23_Witness ==
    /\ readinessVariant
    /\ hLast.kind = "transport"
    /\ hLast.before.databaseWaitState.active
    /\ backendWaitState.active
    /\ ~databaseWaitState.active
    /\ ~overlayState.database.active

\* C33: whenever backend-recovering is active a recurring poller is
\* scheduled: no reachable state has the wait or its banner active and no
\* poller interval.
C33_RecoveryHasPoller ==
    (backendWaitState.active \/ overlayState.backend.active) =>
        /\ backendHealthCheckIntervalId
        /\ timers.poller >= 1

\* a request failed while the poller of an earlier failure was still
\* scheduled and the backend wait had ended: the wait restarts on that poller
C33_Witness ==
    /\ hLast.kind \in {"transport", "status5xx"}
    /\ hLast.before.poller
    /\ ~hLast.before.backendWaitState.active
    /\ backendWaitState.active
    /\ overlayState.backend.active
    /\ timers.poller = 1

\* C34: whenever the datastore wait is active some prober is still running:
\* the initial readiness loop has not returned, the recovery poller is
\* scheduled, or at least a probe is still to be answered.
C34_DatabaseWaitHasProber ==
    (databaseWaitState.active \/ overlayState.database.active) =>
        \/ readiness \in {"probing", "delay"}
        \/ backendHealthCheckIntervalId /\ timers.poller >= 1
        \/ probes.initial + probes.poller > 0

\* C25: at most one transient timeout is pending; the toast is active
\* exactly while one is pending, and after a message was shown the pending
\* timeout is the one set for that message, at that time.
C25_OneTransientTimer ==
    /\ Cardinality(timers.transient) <= 1
    /\ overlayState.transient.active <=> timers.transient # {}
    /\ timers.transient = IF overlayState.transient.timeoutId = NoTime
                          THEN {}
                          ELSE {overlayState.transient.timeoutId}
    /\ hLast.kind \in {"transport", "failed4xx"} => timers.transient = {now}

\* a second failure a second after the first, whose toast was still active
C25_Witness ==
    /\ hLast.kind = "failed4xx"
    /\ now = 1
    /\ overlayState.transient.active
    /\ overlayState.transient.timeoutId = 1
    /\ overlayState.transient.message = Plain("Request failed")
    /\ hLast.pending = {0}
    /\ timers.transient = {1}

\* bootstrapWorkspace has issued GET /graph and GET /prompts/{key} and its
\* task is not finished
WorkspaceLoading == \E t \in running : t.label = "Loading workspace"

\* C26: no workspace request is issued before a health probe has reported
\* the backend online and ready: none is in flight when the page has loaded,
\* and the task that issues them starts in the step of such a probe.
C26_LoadAfterReady ==
    /\ ~WorkspaceLoading
    /\ [][(WorkspaceLoading' /\ ~WorkspaceLoading) =>
            /\ hLast'.kind = "probeOk"
            /\ hLast'.prefix = "ready"]_vars

(***************************************************************************)
(* Fair scheduling of the health machine: an interval that stays scheduled *)
(* fires again, a pending timeout fires, and a health probe that was sent  *)
(* is answered, one way or the other.  What the user does, and when, is    *)
(* not subject to fairness.                                                *)
(***************************************************************************)
ProbeAnswered ==
    \/ PingSucceeds
    \/ PingFails
    \/ StatusProbeOffline
    \/ StatusProbeNotReady
    \/ StatusProbeReady

SpecHealthLive ==
    /\ HealthInit
    /\ [][HealthNext]_vars
    /\ WF_vars(PollerFires)
    /\ WF_vars(ProbeAnswered)
    /\ WF_vars(ReadinessDelayElapsed)

\* the health machine with a pending transient timeout firing in the end
SpecHealthFair ==
    /\ HealthInit
    /\ [][HealthNext]_vars
    /\ WF_vars(TransientTimeout)

\* the last event was a health probe that failed
ProbeFailed == hLast.kind \in {"probeFail", "pollProbeFail"}

\* C21: when from some point on every health probe succeeds, an active
\* backend-recovering eventually becomes inactive, by the timers alone.
C21_RecoveryEventuallyEnds ==
    (<>[](~ProbeFailed)) => [](backendWaitState.active => <>(~backendWaitState.active))

\* the poller's probe ended a recovery in the readiness variant
C21_Witness ==
    /\ hLast.kind = "pollProbeOk"
    /\ readinessVariant
    /\ hLast.before.backendWaitState.active
    /\ ~backendWaitState.active
    /\ ~overlayState.backend.active

\* the last event was a health probe that did not report the backend online
\* and the datastore ready
ProbeNotReady ==
    \/ ProbeFailed
    \/ hLast.kind \in {"probeOk", "pollProbeOk"} /\ hLast.prefix = "notReady"

\* C24: when from some point on every health probe reports the backend
\* online and the datastore ready, an active datastore-wait eventually
\* becomes inactive, by the timers alone; stated for the behaviours in which
\* every task comes to its end.
C24_DatabaseWaitEventuallyEnds ==
    ((<>[](~ProbeNotReady)) /\ []<>(running = {})) =>
        [](databaseWaitState.active => <>(~databaseWaitState.active))

\* the last event was a request answered with an error, or not answered
RequestFailed == hLast.kind \in {"transport", "status5xx", "status4xx", "failed4xx"}

\* bootstrapWorkspace has come to its end: graph merged, prompt applied
WorkspaceLoaded == hLast.kind = "workspaceLoaded"

\* C39: when from some point on every request is answered successfully and
\* every health probe reports the backend online and ready, the workspace
\* is eventually loaded, by the timers alone, also when the first attempt
\* to load it failed; stated for the behaviours in which every task comes
\* to its end.
C39_WorkspaceEventuallyLoaded ==
    ((<>[](~ProbeNotReady /\ ~RequestFailed)) /\ []<>(running = {})) =>
        <>WorkspaceLoaded

\* the overlay displays the message, or the recovery banner
Displayed(message) ==
    /\ ~overlay.hidden
    /\ \/ overlay.text = Plain(message)
       \/ overlayState.backend.active /\ overlay.text = overlayState.backend.message

\* C27: every failure of a task is followed by a state in which the overlay
\* displays the failure's message or the recovery banner; stated for the
\* behaviours in which every task comes to its end.
C27_FailureBecomesVisible ==
    ([]<>(running = {})) =>
        /\ [](hLast.kind = "failed4xx" => <>Displayed("Request failed"))
        /\ [](hLast.kind = "transport" => <>Displayed("Backend is waking up"))

(***************************************************************************)
(* The Request Gateway over page loads that share one local storage.       *)
(***************************************************************************)
\* the script runs: USER_ID = getOrSetUserId() where the script has it
loadPage(variant, stored, uuid) ==
    IF HasUserId(variant)
    THEN getOrSetUserId(stored, uuid)
    ELSE [userId |-> NoValue, stored |-> stored]

\* the page has loaded for the first time, with the storage empty or holding
\* the id of an earlier visit
GatewayInit ==
    /\ GraphIdle
    /\ HealthIdle
    /\ AsideIdle
    /\ scriptVariant \in ScriptVariants
    /\ \E stored \in UUIDs \cup {NoValue}, uuid \in UUIDs :
        /\ USER_ID = loadPage(scriptVariant, stored, uuid).userId
        /\ localStorage = loadPage(scriptVariant, stored, uuid).stored
    /\ requestLog = << >>

\* the page is loaded again
PageLoad ==
    /\ \E uuid \in UUIDs :
        /\ USER_ID' = loadPage(scriptVariant, localStorage, uuid).userId
        /\ localStorage' = loadPage(scriptVariant, localStorage, uuid).stored
    /\ UNCHANGED << scriptVariant, requestLog >>
    /\ UNCHANGED << graphVars, uiVars, harnessVars, healthVars, asideVars >>

\* a handler calls request(path, options): the config goes to fetch
GatewayRequest ==
    /\ Len(requestLog) < MaxRequests
    /\ \E method \in Methods, hasBody \in BOOLEAN, uuid \in UUIDs :
        requestLog' = Append(requestLog,
                             request(scriptVariant, USER_ID, method, hasBody, uuid))
    /\ UNCHANGED << scriptVariant, localStorage, USER_ID >>
    /\ UNCHANGED << graphVars, uiVars, harnessVars, healthVars, asideVars >>

GatewayNext == PageLoad \/ GatewayRequest

SpecGateway == GatewayInit /\ [][GatewayNext]_vars

\* C28: every mutating request carries an Idempotency-Key header, no GET
\* request carries one, and no two requests carry the same key.
C28_IdempotencyKeys ==
    /\ \A i \in 1..Len(requestLog) :
        /\ toUpperCase(requestLog[i].method) \in idempotentMethods =>
               requestLog[i].headers.IdempotencyKey # NoValue
        /\ requestLog[i].method = "GET" =>
               requestLog[i].headers.IdempotencyKey = NoValue
    /\ \A i, j \in 1..Len(requestLog) :
        (i # j /\ requestLog[i].headers.IdempotencyKey # NoValue) =>
            requestLog[i].headers.IdempotencyKey # requestLog[j].headers.IdempotencyKey

\* C29: every request carries an X-User-ID header, the same on all requests
\* of all page loads; a stored id is never overwritten.
C29_StableUserId ==
    /\ [](\A i \in 1..Len(requestLog) :
            /\ requestLog[i].headers.XUserID # NoValue
            /\ requestLog[i].headers.XUserID = localStorage)
    /\ [][localStorage # NoValue => localStorage' = localStorage]_vars

(***************************************************************************)
(* The prompt editor: bootstrap loads the prompt, the user types, saves    *)
(* and resets.                                                             *)
(***************************************************************************)
\* the page has loaded: bootstrapWorkspace has requested the prompt
PromptInit ==
    /\ GraphIdle
    /\ HealthIdle
    /\ GatewayIdle
    /\ TruncIdle
    /\ promptTextarea = InitialEditor.value
    /\ promptSnapshot = InitialEditor.snapshot
    /\ promptButtons = InitialEditor.buttons
    /\ promptTasks = {PromptTask("load", "")}
    /\ pLast = PromptOp("none", InitialEditor)

PromptFrame == UNCHANGED << graphVars, uiVars, harnessVars, healthVars, gatewayVars, truncVars >>

\* the user edits the textarea: the input event
PromptInput ==
    /\ \E text \in PromptTexts :
        /\ text # promptTextarea
        /\ SetEditor(updatePromptActions([Editor EXCEPT !.value = text]))
    /\ pLast' = PromptOp("input", Editor)
    /\ UNCHANGED promptTasks
    /\ PromptFrame

\* savePromptButton click, the button being enabled: PUT with the textarea's
\* value
SavePromptClick ==
    /\ ~promptButtons.saveDisabled
    /\ Cardinality(promptTasks) < MaxPromptTasks
    /\ promptTasks' = promptTasks \cup {PromptTask("save", promptTextarea)}
    /\ pLast' = PromptOp("saveClick", Editor)
    /\ UNCHANGED << promptTextarea, promptSnapshot, promptButtons >>
    /\ PromptFrame

\* the PUT is answered 2xx: applyPrompt(response.prompt)
SavePromptResolve ==
    /\ \E t \in promptTasks :
        /\ t.kind = "save"
        /\ promptTasks' = promptTasks \ {t}
        /\ \E prompt \in {t.body, NoPrompt} : SetEditor(applyPrompt(Editor, prompt))
    /\ pLast' = PromptOp("saved", Editor)
    /\ PromptFrame

\* the PUT fails
SavePromptFail ==
    /\ \E t \in promptTasks :
        /\ t.kind = "save"
        /\ promptTasks' = promptTasks \ {t}
    /\ pLast' = PromptOp("saveFailed", Editor)
    /\ UNCHANGED << promptTextarea, promptSnapshot, promptButtons >>
    /\ PromptFrame

\* resetPromptButton click, the button being enabled
ResetPromptClick ==
    /\ ~promptButtons.resetDisabled
    /\ SetEditor(resetPrompt(Editor))
    /\ pLast' = PromptOp("reset", Editor)
    /\ UNCHANGED promptTasks
    /\ PromptFrame

\* bootstrapWorkspace: both requests answered, applyPrompt(promptDoc?.prompt || '')
LoadPromptResolve ==
    /\ PromptTask("load", "") \in promptTasks
    /\ promptTasks' = promptTasks \ {PromptTask("load", "")}
    /\ \E prompt \in {"P1", NoPrompt} : SetEditor(applyPrompt(Editor, prompt))
    /\ pLast' = PromptOp("loaded", Editor)
    /\ PromptFrame

\* bootstrapWorkspace: a request fails
LoadPromptFail ==
    /\ PromptTask("load", "") \in promptTasks
    /\ promptTasks' = promptTasks \ {PromptTask("load", "")}
    /\ pLast' = PromptOp("loadFailed", Editor)
    /\ UNCHANGED << promptTextarea, promptSnapshot, promptButtons >>
    /\ PromptFrame

PromptNext ==
    \/ PromptInput
    \/ SavePromptClick
    \/ SavePromptResolve
    \/ SavePromptFail
    \/ ResetPromptClick
    \/ LoadPromptResolve
    \/ LoadPromptFail

SpecPrompt == PromptInit /\ [][PromptNext]_vars

\* C31: the save and reset buttons are enabled exactly when the textarea
\* differs from the snapshot; reset sets the textarea to the snapshot and
\* disables both; the snapshot changes only when a prompt is loaded or a save
\* succeeds.
C31_DirtyFlag ==
    /\ [](/\ ~promptButtons.saveDisabled <=> promptTextarea # promptSnapshot
          /\ ~promptButtons.resetDisabled <=> promptTextarea # promptSnapshot
          /\ pLast.kind = "reset" =>
                /\ promptTextarea = pLast.before.snapshot
                /\ promptSnapshot = pLast.before.snapshot
                /\ promptButtons.saveDisabled /\ promptButtons.resetDisabled)
    /\ [][promptSnapshot' # promptSnapshot => pLast'.kind \in {"loaded", "saved"}]_vars

\* "P1" was loaded, the textarea edited to "P1x", and reset clicked
C31_Witness ==
    /\ pLast.kind = "reset"
    /\ pLast.before.value = "P1x"
    /\ pLast.before.snapshot = "P1"
    /\ ~pLast.before.buttons.resetDisabled
    /\ promptTextarea = "P1"
    /\ promptButtons.resetDisabled

(***************************************************************************)
(* truncateTextToFit applied to every text of up to MaxTextLen characters   *)
(* and every width up to MaxTruncWidth.                                    *)
(***************************************************************************)
\* a wide capital, an ordinary letter and a narrow space
TextAlphabet == {"A", "b", " "}

RECURSIVE TextsOfLen(_)
TextsOfLen(n) ==
    IF n = 0 THEN {""}
    ELSE {t \o c : t \in TextsOfLen(n - 1), c \in TextAlphabet}

Texts == UNION {TextsOfLen(n) : n \in 0..MaxTextLen}

TruncInit ==
    /\ GraphIdle
    /\ HealthIdle
    /\ GatewayIdle
    /\ PromptIdle
    /\ truncText \in Texts
    /\ truncMaxWidth \in 0..MaxTruncWidth
    /\ truncPc = "call"
    /\ truncResult = ""

\* truncateTextToFit(text, maxWidth, font) runs and returns
TruncateCall ==
    /\ truncPc = "call"
    /\ truncResult' = truncateTextToFit(truncText, truncMaxWidth)
    /\ truncPc' = "return"
    /\ UNCHANGED << truncText, truncMaxWidth >>
    /\ UNCHANGED << graphVars, uiVars, harnessVars, healthVars, gatewayVars, promptVars >>

TruncNext == TruncateCall

SpecTruncate == TruncInit /\ [][TruncNext]_vars

Prefix(text, k) == SubSeq(text, 1, k)

\* p + ellipsis, p the longest prefix of text for which p + ellipsis fits,
\* the empty prefix when none fits
LongestFittingPrefix(text, maxWidth, result) ==
    \E k \in 0..Len(text) :
        /\ result = Prefix(text, k) \o Ellipsis
        /\ k > 0 => measure(Prefix(text, k) \o Ellipsis) <= maxWidth
        /\ \A j \in (k + 1)..Len(text) : measure(Prefix(text, j) \o Ellipsis) > maxWidth

\* C32 (as stated): a text that fits is returned unchanged; otherwise the
\* result is the longest fitting prefix plus the ellipsis, ends in the
\* ellipsis and is shorter than the text.
C32_TruncateShorter ==
    truncPc = "return" =>
        IF measure(truncText) <= truncMaxWidth THEN truncResult = truncText
        ELSE /\ LongestFittingPrefix(truncText, truncMaxWidth, truncResult)
             /\ SubSeq(truncResult, Len(truncResult), Len(truncResult)) = Ellipsis
             /\ Len(truncResult) < Len(truncText)

\* C32 (amended): a text that fits is returned unchanged; otherwise the result
\* is the longest fitting prefix plus the ellipsis, ends in the ellipsis and
\* is never longer than the text: it has the text's length when one character
\* was dropped, and is shorter when more were.
C32_TruncateLongestPrefix ==
    truncPc = "return" =>
        IF measure(truncText) <= truncMaxWidth THEN truncResult = truncText
        ELSE /\ LongestFittingPrefix(truncText, truncMaxWidth, truncResult)
             /\ SubSeq(truncResult, Len(truncResult), Len(truncResult)) = Ellipsis
             /\ Len(truncResult) <= Len(truncText)
             /\ Len(truncResult) < Len(truncText) <=> Len(truncText) - (Len(truncResult) - 1) >= 2

\* a text that does not fit was cut to a non-empty prefix, more than one
\* character dropped
C32_Witness ==
    /\ truncPc = "return"
    /\ measure(truncText) > truncMaxWidth
    /\ Len(truncResult) = 2
    /\ Len(truncText) = 3
    /\ measure(truncResult) <= truncMaxWidth

====
